---------------------------- MODULE Spec2Model ----------------------------
(***************************************************************************)
(* Model of the DayNightLightShift Indigo plugin (plugin.py).              *)
(*                                                                         *)
(* The plugin keeps a registry of Shift objects (Plugin.shifts) and a      *)
(* reverse index from underlying device id to the set of shifts that use   *)
(* it (Plugin.device_to_shifts).  The host (the Indigo server) calls the   *)
(* plugin's handlers one at a time; every action below is one handler,     *)
(* run to completion.  An uncaught Python exception ends the handler where *)
(* it is raised and keeps the mutations made before it.                    *)
(*                                                                         *)
(* Host state that the handlers read or write:                             *)
(*   dev_states  the states of each virtual shift device on the server     *)
(*               (written by updateStateOnServer, read by dev.states.get)  *)
(*   devOn       the server's onOffState of each underlying device         *)
(* Sets of Shift objects are modelled as sets of their device_id: the host *)
(* starts a device only while it is not running, so at most one live Shift *)
(* object exists per id.                                                   *)
(***************************************************************************)
EXTENDS Integers, Sequences, FiniteSets

VARIABLES
    shifts,            \* Plugin.shifts: dict device_id -> Shift
    device_to_shifts,  \* Plugin.device_to_shifts: dict device id -> set of Shift
    dev_states,        \* host: states of the virtual shift devices
    devOn,             \* host: onOffState of the underlying devices
    lastObserved,      \* history (SpecObserved only): the last onOffState that
                       \* deviceUpdated delivered for each monitored device
    optimistic,        \* history (SpecObserved only): the shifts that got a turn-on
                       \* or turn-off command since the last change notification
                       \* of their active device
    power,             \* host (SpecPowered only): whether each underlying device
                       \* is powered, as the commands sent to it have left it
    pending,           \* host (SpecPowered only): the change notifications not yet
                       \* delivered to deviceUpdated, oldest first
    cmds,              \* commands the last handler issued to underlying devices, in order
    last               \* the last handler call: its name, id, arguments and whether it raised

vars == <<shifts, device_to_shifts, dev_states, devOn, lastObserved, optimistic,
          power, pending, cmds, last>>

---------------------------------------------------------------------------
(* Bounds of the model *)

\* Number of underlying devices the host knows
NumDevices == 2

\* The ids of the virtual shift devices and of the underlying devices
ShiftIds == {1, 2}
DeviceIds == {10 + n : n \in 1 .. NumDevices}

\* Most change notifications the host holds back at a time (SpecPowered)
MaxPending == 2

---------------------------------------------------------------------------
(* Values *)

STATES == {"day", "night"}

\* Python's None, as returned by dev.states.get('mode') for a missing state
None == "None"

\* What the host can report as the 'mode' state of a virtual device before the
\* plugin has ever written it: nothing, an empty string, or a valid mode.
HostModes == {None, ""} \cup STATES

\* The values the configuration UI offers for default_mode and for the
\* 'mode' property of the set-mode action.
ModeParams == STATES

\* lastObserved[d] is the set holding the last delivered state of d, if any
NotObserved == {}

Shift(device_id, onOffState, mode, day_device_id, night_device_id) ==
    [device_id |-> device_id, onOffState |-> onOffState, mode |-> mode,
     day_device_id |-> day_device_id, night_device_id |-> night_device_id]

\* Mutant: the mode string is compared with the member Mode.DAY of the Enum of
\* lines 7-9, which no string equals
current_shift_device_id_ComparingEnum(shift) ==
    shift.night_device_id

current_shift_device_id(shift) ==
    IF shift.mode = "day" THEN shift.day_device_id ELSE shift.night_device_id

---------------------------------------------------------------------------
(* Python dict and set operations *)

DictSet(dict, key, value) ==
    [k \in DOMAIN dict \cup {key} |-> IF k = key THEN value ELSE dict[k]]

DictPop(dict, key) ==
    [k \in DOMAIN dict \ {key} |-> dict[k]]

\* Mutant: the entry is replaced by a fresh set instead of being added to
SetDefaultAdd_Overwriting(dict, key, item) ==
    DictSet(dict, key, {item})

\* dict.setdefault(key, set()).add(item)
SetDefaultAdd(dict, key, item) ==
    IF key \in DOMAIN dict
    THEN [dict EXCEPT ![key] = @ \cup {item}]
    ELSE DictSet(dict, key, {item})

\* shift_device.updateStateOnServer(key, value); the local dev.states follows
UpdateStateOnServer(states, id, key, value) ==
    [states EXCEPT ![id] = [@ EXCEPT ![key] = value]]

EmptyDict == [k \in {} |-> {}]

\* Mutant: an emptied entry is left in the dict
RemoveShift_KeepingEmpty(dict, key, item) ==
    IF key \notin DOMAIN dict \/ item \notin dict[key]
    THEN [dict |-> dict, err |-> TRUE]
    ELSE [dict |-> [dict EXCEPT ![key] = @ \ {item}], err |-> FALSE]

\* dict[key].remove(item), then dict.pop(key) if the set is left empty.
\* A missing key or a missing item raises KeyError and changes nothing.
RemoveShift(dict, key, item) ==
    IF key \notin DOMAIN dict \/ item \notin dict[key]
    THEN [dict |-> dict, err |-> TRUE]
    ELSE LET removed == [dict EXCEPT ![key] = @ \ {item}]
         IN  [dict |-> IF removed[key] = {} THEN DictPop(removed, key) ELSE removed,
              err |-> FALSE]

Cmd(kind, device) == [kind |-> kind, device |-> device]

Call(op, id, args, err) == [op |-> op, id |-> id, args |-> args, err |-> err]

NoArgs == <<>>

---------------------------------------------------------------------------
(* State after Plugin.startup *)

Init ==
    /\ shifts = EmptyDict
    /\ device_to_shifts = EmptyDict
    /\ dev_states \in [ShiftIds -> [onOffState : {FALSE}, mode : HostModes]]
    /\ devOn \in [DeviceIds -> BOOLEAN]
    /\ lastObserved = [d \in DeviceIds |-> NotObserved]
    /\ optimistic = {}
    /\ power = [d \in DeviceIds |-> FALSE]
    /\ pending = <<>>
    /\ cmds = <<>>
    /\ last = Call("startup", 0, NoArgs, FALSE)

---------------------------------------------------------------------------
(* Handlers *)

\* Mutant: the handler returns silently on an unknown id
Raise_Silently(op, id, args) ==
    /\ last' = Call(op, id, args, FALSE)
    /\ cmds' = <<>>
    /\ UNCHANGED <<shifts, device_to_shifts, dev_states, devOn>>

\* A handler that raises before it has changed anything
Raise(op, id, args) ==
    /\ last' = Call(op, id, args, TRUE)
    /\ cmds' = <<>>
    /\ UNCHANGED <<shifts, device_to_shifts, dev_states, devOn>>

\* Mutant: only a missing 'mode' state is replaced, an unknown one is kept
ApplyDefaultMode_OnlyIfMissing(states, id, default_mode) ==
    IF states[id].mode = None
    THEN UpdateStateOnServer(states, id, "mode", default_mode)
    ELSE states

\* Lines 69-70: a missing or unknown 'mode' state is replaced by default_mode
ApplyDefaultMode(states, id, default_mode) ==
    IF states[id].mode = None \/ states[id].mode \notin STATES
    THEN UpdateStateOnServer(states, id, "mode", default_mode)
    ELSE states

deviceStartComm(id, day, night, default_mode) ==
    LET host_mode == dev_states[id].mode
        states1 == ApplyDefaultMode(dev_states, id, default_mode)
        shift == Shift(id, FALSE, states1[id].mode, day, night)
    IN  /\ id \notin DOMAIN shifts
        /\ dev_states' = states1
        /\ device_to_shifts' =
               SetDefaultAdd(SetDefaultAdd(device_to_shifts, day, id), night, id)
        /\ shifts' = DictSet(shifts, id, shift)
        /\ cmds' = <<>>
        /\ last' = Call("deviceStartComm", id,
                        <<host_mode, day, night, default_mode>>, FALSE)
        /\ UNCHANGED devOn

deviceStopComm(id) ==
    IF id \notin DOMAIN shifts
    THEN Raise("deviceStopComm", id, NoArgs)
    ELSE LET shift == shifts[id]
             day == RemoveShift(device_to_shifts, shift.day_device_id, id)
             night == IF day.err THEN day
                      ELSE RemoveShift(day.dict, shift.night_device_id, id)
         IN  /\ shifts' = DictPop(shifts, id)
             /\ device_to_shifts' = night.dict
             /\ cmds' = <<>>
             /\ last' = Call("deviceStopComm", id,
                             <<shift.day_device_id, shift.night_device_id>>, night.err)
             /\ UNCHANGED <<dev_states, devOn>>

\* Mutant: the mode is not looked at, any referenced device is mirrored
Mirrors_IgnoringMode(shift, new_device_id) ==
    \/ shift.day_device_id = new_device_id
    \/ shift.night_device_id = new_device_id

\* Mutant: the branch of line 124 is missing, only the day device is mirrored
Mirrors_DayOnly(shift, new_device_id) ==
    shift.mode = "day" /\ shift.day_device_id = new_device_id

\* The test of lines 119 and 124: the shift mirrors the changed device
Mirrors(shift, new_device_id) ==
    \/ shift.mode = "day" /\ shift.day_device_id = new_device_id
    \/ shift.mode = "night" /\ shift.night_device_id = new_device_id

\* The host reports that underlying device new_device_id now has onOffState v
deviceUpdated(new_device_id, v) ==
    LET watched == IF new_device_id \in DOMAIN device_to_shifts
                   THEN {s \in device_to_shifts[new_device_id] :
                             Mirrors(shifts[s], new_device_id)}
                   ELSE {}
    IN  /\ devOn' = [devOn EXCEPT ![new_device_id] = v]
        /\ shifts' = [s \in DOMAIN shifts |->
                          IF s \in watched
                          THEN [shifts[s] EXCEPT !.onOffState = v]
                          ELSE shifts[s]]
        /\ dev_states' = [s \in DOMAIN dev_states |->
                              IF s \in watched
                              THEN [dev_states[s] EXCEPT !.onOffState = v]
                              ELSE dev_states[s]]
        /\ cmds' = <<>>
        /\ last' = Call("deviceUpdated", new_device_id, <<v>>, FALSE)
        /\ UNCHANGED device_to_shifts

turn_on_shift(id) ==
    IF id \notin DOMAIN shifts
    THEN Raise("turn_on_shift", id, NoArgs)
    ELSE LET device == current_shift_device_id(shifts[id])
         IN  /\ dev_states' = UpdateStateOnServer(dev_states, id, "onOffState", TRUE)
             /\ cmds' = <<Cmd("turnOn", device)>>
             /\ last' = Call("turn_on_shift", id, NoArgs, FALSE)
             /\ UNCHANGED <<shifts, device_to_shifts, devOn>>

turn_off_shift(id) ==
    IF id \notin DOMAIN shifts
    THEN Raise("turn_off_shift", id, NoArgs)
    ELSE LET device == current_shift_device_id(shifts[id])
         IN  /\ dev_states' = UpdateStateOnServer(dev_states, id, "onOffState", FALSE)
             /\ cmds' = <<Cmd("turnOff", device)>>
             /\ last' = Call("turn_off_shift", id, NoArgs, FALSE)
             /\ UNCHANGED <<shifts, device_to_shifts, devOn>>

\* Mutant: the update of line 155 is left out
PublishStatus_CachedOnly(states, shift, monitored_onOffState) ==
    LET s1 == UpdateStateOnServer(states, shift.device_id, "onOffState", shift.onOffState)
    IN  UpdateStateOnServer(s1, shift.device_id, "mode", shift.mode)

\* Lines 153-155: the three state updates of the RequestStatus branch, in order
PublishStatus(states, shift, monitored_onOffState) ==
    LET s1 == UpdateStateOnServer(states, shift.device_id, "onOffState", shift.onOffState)
        s2 == UpdateStateOnServer(s1, shift.device_id, "mode", shift.mode)
    IN  UpdateStateOnServer(s2, shift.device_id, "onOffState", monitored_onOffState)

\* The RequestStatus branch of actionControlDevice.  refreshFromServer loads
\* the server's current state of the monitored device into the local copy.
requestStatus(id) ==
    IF id \notin DOMAIN shifts
    THEN Raise("requestStatus", id, NoArgs)
    ELSE LET shift == shifts[id]
             monitored_device == current_shift_device_id(shift)
         IN  /\ dev_states' = PublishStatus(dev_states, shift, devOn[monitored_device])
             /\ cmds' = <<Cmd("refresh", monitored_device)>>
             /\ last' = Call("requestStatus", id, NoArgs, FALSE)
             /\ UNCHANGED <<shifts, device_to_shifts, devOn>>

actionControlDevice(id, deviceAction) ==
    IF deviceAction = "TurnOn" THEN turn_on_shift(id)
    ELSE IF deviceAction = "TurnOff" THEN turn_off_shift(id)
    ELSE requestStatus(id)

\* Mutant: the devices are switched whether or not the shift is on
SwitchCommands_Unconditional(shift, mode) ==
    IF mode = "day"
    THEN <<Cmd("turnOn", shift.day_device_id), Cmd("turnOff", shift.night_device_id)>>
    ELSE <<Cmd("turnOn", shift.night_device_id), Cmd("turnOff", shift.day_device_id)>>

\* Mutant: the two branches of lines 189-194 are exchanged
SwitchCommands_Swapped(shift, mode) ==
    IF shift.onOffState
    THEN IF mode = "day"
         THEN <<Cmd("turnOn", shift.night_device_id), Cmd("turnOff", shift.day_device_id)>>
         ELSE <<Cmd("turnOn", shift.day_device_id), Cmd("turnOff", shift.night_device_id)>>
    ELSE <<>>

\* Lines 188-194: the commands set_shift issues for a shift already in `mode`
SwitchCommands(shift, mode) ==
    IF shift.onOffState
    THEN IF mode = "day"
         THEN <<Cmd("turnOn", shift.day_device_id), Cmd("turnOff", shift.night_device_id)>>
         ELSE <<Cmd("turnOn", shift.night_device_id), Cmd("turnOff", shift.day_device_id)>>
    ELSE <<>>

\* Mutant: the mode is set on every registered shift, not only on the target
set_shift_EveryShift(shift_id, mode) ==
    IF shift_id \notin DOMAIN shifts
    THEN Raise("set_shift", shift_id, <<mode>>)
    ELSE LET shift == [shifts[shift_id] EXCEPT !.mode = mode]
         IN  /\ shifts' = [s \in DOMAIN shifts |-> [shifts[s] EXCEPT !.mode = mode]]
             /\ dev_states' = UpdateStateOnServer(dev_states, shift_id, "mode", mode)
             /\ cmds' = SwitchCommands(shift, mode)
             /\ last' = Call("set_shift", shift_id, <<mode>>, FALSE)
             /\ UNCHANGED <<device_to_shifts, devOn>>

set_shift(shift_id, mode) ==
    IF shift_id \notin DOMAIN shifts
    THEN Raise("set_shift", shift_id, <<mode>>)
    ELSE LET shift == [shifts[shift_id] EXCEPT !.mode = mode]
         IN  /\ shifts' = [shifts EXCEPT ![shift_id] = shift]
             /\ dev_states' = UpdateStateOnServer(dev_states, shift_id, "mode", mode)
             /\ cmds' = SwitchCommands(shift, mode)
             /\ last' = Call("set_shift", shift_id, <<mode>>, FALSE)
             /\ UNCHANGED <<device_to_shifts, devOn>>

---------------------------------------------------------------------------
(* The host calls one handler at a time *)

\* The history variables and the host's power bookkeeping stand still
Frozen == UNCHANGED <<lastObserved, optimistic, power, pending>>

Next ==
    \/ \E id \in ShiftIds, day \in DeviceIds, night \in DeviceIds, m \in ModeParams :
           deviceStartComm(id, day, night, m) /\ Frozen
    \/ \E id \in ShiftIds : deviceStopComm(id) /\ Frozen
    \/ \E d \in DeviceIds, v \in BOOLEAN : deviceUpdated(d, v) /\ Frozen
    \/ \E id \in ShiftIds : actionControlDevice(id, "TurnOn") /\ Frozen
    \/ \E id \in ShiftIds : actionControlDevice(id, "TurnOff") /\ Frozen
    \/ \E id \in ShiftIds : actionControlDevice(id, "RequestStatus") /\ Frozen
    \/ \E id \in ShiftIds, m \in ModeParams : set_shift(id, m) /\ Frozen

Spec == Init /\ [][Next]_vars

---------------------------------------------------------------------------
(* Vocabulary of the properties *)

\* activeDeviceId(): the day device in mode DAY, the night device otherwise
ActiveDeviceId(shift) ==
    IF shift.mode = "day" THEN shift.day_device_id ELSE shift.night_device_id

InactiveDeviceId(shift) ==
    IF shift.mode = "day" THEN shift.night_device_id ELSE shift.day_device_id

\* d is the shift's currently active target
IsActiveTarget(shift, d) ==
    \/ shift.mode = "day" /\ d = shift.day_device_id
    \/ shift.mode = "night" /\ d = shift.night_device_id

\* The last handler call was op and did not raise
Returned(call, op) == call.op = op /\ ~call.err

---------------------------------------------------------------------------
(* The same program with its history recorded: what deviceUpdated last     *)
(* delivered for each underlying device while some shift referenced it     *)
(* (otherwise the handler returns at line 116 without looking at the       *)
(* state), and which shifts are between a turn-on or turn-off command and  *)
(* the next change notification of their active device.                    *)

Observe ==
    /\ lastObserved' =
           IF last'.op = "deviceUpdated" /\ last'.id \in DOMAIN device_to_shifts
           THEN [lastObserved EXCEPT ![last'.id] = {last'.args[1]}]
           ELSE lastObserved
    /\ optimistic' =
           LET commanded == IF /\ last'.op \in {"turn_on_shift", "turn_off_shift"}
                               /\ ~last'.err
                            THEN optimistic \cup {last'.id}
                            ELSE optimistic
               notified == IF last'.op = "deviceUpdated"
                           THEN {s \in DOMAIN shifts :
                                     ActiveDeviceId(shifts[s]) = last'.id}
                           ELSE {}
               restarted == IF last'.op = "deviceStartComm" THEN {last'.id} ELSE {}
           IN  (commanded \ (notified \cup restarted)) \cap DOMAIN shifts'
    /\ UNCHANGED <<power, pending>>

NextObserved ==
    \/ \E id \in ShiftIds, day \in DeviceIds, night \in DeviceIds, m \in ModeParams :
           deviceStartComm(id, day, night, m) /\ Observe
    \/ \E id \in ShiftIds : deviceStopComm(id) /\ Observe
    \/ \E d \in DeviceIds, v \in BOOLEAN : deviceUpdated(d, v) /\ Observe
    \/ \E id \in ShiftIds : actionControlDevice(id, "TurnOn") /\ Observe
    \/ \E id \in ShiftIds : actionControlDevice(id, "TurnOff") /\ Observe
    \/ \E id \in ShiftIds : actionControlDevice(id, "RequestStatus") /\ Observe
    \/ \E id \in ShiftIds, m \in ModeParams : set_shift(id, m) /\ Observe

SpecObserved == Init /\ [][NextObserved]_vars

---------------------------------------------------------------------------
(* The same handlers with a host that carries out their commands.  One     *)
(* shift is started while all underlying devices are off; from then on a   *)
(* device changes power only because a handler sent it turnOn or turnOff   *)
(* (lines 165, 175, 190-194).  The host carries a command out when it is   *)
(* sent and queues one change notification for it; the notifications reach *)
(* deviceUpdated later, in order, and other handlers may run in between.   *)

\* What one command does to the power of the devices
Effect(p, cmd) ==
    IF cmd.kind = "turnOn" THEN [p EXCEPT ![cmd.device] = TRUE]
    ELSE IF cmd.kind = "turnOff" THEN [p EXCEPT ![cmd.device] = FALSE]
    ELSE p

RECURSIVE Execute(_, _)
\* The commands of one handler, carried out in the order they were sent
Execute(p, commands) ==
    IF commands = <<>> THEN p
    ELSE Execute(Effect(p, Head(commands)), Tail(commands))

\* The change notification that a command causes
Notification(cmd) == [device |-> cmd.device, onOffState |-> cmd.kind = "turnOn"]

Notifications(commands) ==
    LET switching == SelectSeq(commands,
                               LAMBDA c : c.kind \in {"turnOn", "turnOff"})
    IN  [i \in DOMAIN switching |-> Notification(switching[i])]

\* The host carries out the commands of the handler that has just run
Commanded ==
    /\ power' = Execute(power, cmds')
    /\ pending' = pending \o Notifications(cmds')
    /\ Len(pending') <= MaxPending
    /\ UNCHANGED <<lastObserved, optimistic>>

\* The host delivers the oldest pending change notification
Deliver ==
    /\ pending # <<>>
    /\ deviceUpdated(Head(pending).device, Head(pending).onOffState)
    /\ pending' = Tail(pending)
    /\ UNCHANGED <<power, lastObserved, optimistic>>

InitPowered == Init /\ devOn = [d \in DeviceIds |-> FALSE]

NextPowered ==
    \/ \E id \in ShiftIds, day \in DeviceIds, night \in DeviceIds, m \in ModeParams :
           shifts = EmptyDict /\ deviceStartComm(id, day, night, m) /\ Commanded
    \/ \E id \in DOMAIN shifts : actionControlDevice(id, "TurnOn") /\ Commanded
    \/ \E id \in DOMAIN shifts : actionControlDevice(id, "TurnOff") /\ Commanded
    \/ \E id \in DOMAIN shifts, m \in ModeParams : set_shift(id, m) /\ Commanded
    \/ Deliver

SpecPowered == InitPowered /\ [][NextPowered]_vars

---------------------------------------------------------------------------
(* C1: deviceUpdated(d, v) sets the cached onOffState of exactly the        *)
(* registered shifts whose currently active target is d to v; every other  *)
(* shift (d is only its inactive target, or it does not reference d) keeps *)
(* its onOffState, and no shift is added or removed.                       *)
C1_MirrorsActiveTargetOnly ==
    [][last'.op = "deviceUpdated" =>
          /\ DOMAIN shifts' = DOMAIN shifts
          /\ \A s \in DOMAIN shifts :
                 shifts'[s].onOffState =
                     IF IsActiveTarget(shifts[s], last'.id)
                     THEN last'.args[1]
                     ELSE shifts[s].onOffState]_vars

\* Two shifts share a day device; its change to on reached the one in mode
\* day and left the one in mode night off.
C1_Witness ==
    /\ Returned(last, "deviceUpdated")
    /\ last.args[1] = TRUE
    /\ \E s1, s2 \in DOMAIN shifts :
           /\ s1 # s2
           /\ shifts[s1].day_device_id = last.id
           /\ shifts[s2].day_device_id = last.id
           /\ shifts[s2].night_device_id # last.id
           /\ shifts[s1].mode = "day"
           /\ shifts[s2].mode = "night"
           /\ shifts[s1].onOffState = TRUE
           /\ shifts[s2].onOffState = FALSE

---------------------------------------------------------------------------
(* C2: after turnOn(S) (turnOff(S)) on a registered shift, S's cached      *)
(* onOffState is true (false), the virtual device shows that value, and    *)
(* exactly one power command was issued, to S's active device.             *)
C2_TurnOnSetsCachedState ==
    \A want \in BOOLEAN :
        Returned(last, IF want THEN "turn_on_shift" ELSE "turn_off_shift") =>
            /\ shifts[last.id].onOffState = want
            /\ dev_states[last.id].onOffState = want
            /\ cmds = <<Cmd(IF want THEN "turnOn" ELSE "turnOff",
                            ActiveDeviceId(shifts[last.id]))>>

---------------------------------------------------------------------------
(* C4: every registered shift's cached onOffState equals the state last    *)
(* observed (delivered by deviceUpdated) for the device active under its   *)
(* current mode, except between a turn-on or turn-off command on the shift *)
(* and the next change notification of its active device.                  *)
C4_OnEqualsLastObserved ==
    \A s \in DOMAIN shifts :
        LET d == ActiveDeviceId(shifts[s])
        IN  (lastObserved[d] # NotObserved /\ s \notin optimistic) =>
                lastObserved[d] = {shifts[s].onOffState}

---------------------------------------------------------------------------
(* C3: set_shift(S, NEW) on a registered shift leaves S in mode NEW and    *)
(* shows NEW on the virtual device.  If S's cached onOffState was true at  *)
(* the call, exactly one turnOn was issued, to the device active under     *)
(* NEW, and exactly one turnOff, to the device inactive under NEW, and     *)
(* nothing else; if it was false, no command was issued.                   *)
CommandsOfKind(kind) == {i \in DOMAIN cmds' : cmds'[i].kind = kind}

C3_SetModeSwitchesDevices ==
    [][(last'.op = "set_shift" /\ ~last'.err) =>
          LET id == last'.id
              new == last'.args[1]
              after == shifts'[id]
          IN  /\ after.mode = new
              /\ dev_states'[id].mode = new
              /\ IF shifts[id].onOffState
                 THEN /\ Len(cmds') = 2
                      /\ \E i \in DOMAIN cmds' :
                             /\ CommandsOfKind("turnOn") = {i}
                             /\ cmds'[i].device = ActiveDeviceId(after)
                      /\ \E i \in DOMAIN cmds' :
                             /\ CommandsOfKind("turnOff") = {i}
                             /\ cmds'[i].device = InactiveDeviceId(after)
                 ELSE cmds' = <<>>]_vars

\* A shift that was on in mode day has been set to night: the night device
\* was turned on and the day device off.
C3_Witness ==
    /\ Returned(last, "set_shift")
    /\ last.args[1] = "night"
    /\ shifts[last.id].mode = "night"
    /\ shifts[last.id].onOffState
    /\ shifts[last.id].day_device_id # shifts[last.id].night_device_id
    /\ cmds = <<Cmd("turnOn", shifts[last.id].night_device_id),
                Cmd("turnOff", shifts[last.id].day_device_id)>>

---------------------------------------------------------------------------
(* C5: deviceStopComm on a registered shift, whatever its day and night    *)
(* devices and whoever else references them, completes without an error    *)
(* and leaves the shift out of the registry and out of the reverse-index   *)
(* sets of both its devices, with no emptied entry left behind.            *)
StoppedRegistered(call) == call.op = "deviceStopComm" /\ call.args # NoArgs

C5_StopRemovesShift ==
    StoppedRegistered(last) =>
        /\ ~last.err
        /\ last.id \notin DOMAIN shifts
        /\ \A i \in 1 .. 2 :
               \/ last.args[i] \notin DOMAIN device_to_shifts
               \/ /\ last.id \notin device_to_shifts[last.args[i]]
                  /\ device_to_shifts[last.args[i]] # {}

---------------------------------------------------------------------------
(* C6: after deviceStartComm(id, day, night) the registry maps id to a     *)
(* shift with onOffState false and the given day and night devices, the    *)
(* reverse index holds the shift under both devices, and every shift that  *)
(* was in the reverse index before is still there.                         *)
C6_StartRegistersShift ==
    [][last'.op = "deviceStartComm" =>
          LET id == last'.id
              day == last'.args[2]
              night == last'.args[3]
          IN  /\ id \in DOMAIN shifts'
              /\ shifts'[id].device_id = id
              /\ shifts'[id].onOffState = FALSE
              /\ shifts'[id].day_device_id = day
              /\ shifts'[id].night_device_id = night
              /\ {day, night} \subseteq DOMAIN device_to_shifts'
              /\ id \in device_to_shifts'[day]
              /\ id \in device_to_shifts'[night]
              /\ \A d \in DOMAIN device_to_shifts :
                     /\ d \in DOMAIN device_to_shifts'
                     /\ device_to_shifts[d] \subseteq device_to_shifts'[d]
              /\ \A s \in DOMAIN shifts :
                     s \in DOMAIN shifts' /\ shifts'[s] = shifts[s]]_vars

\* A shift has started on two different devices, one of them already
\* watched by another shift.
C6_Witness ==
    /\ Returned(last, "deviceStartComm")
    /\ last.args[2] # last.args[3]
    /\ device_to_shifts[last.args[2]] = ShiftIds
    /\ device_to_shifts[last.args[3]] = {last.id}
    /\ shifts[last.id].onOffState = FALSE

---------------------------------------------------------------------------
(* C7: the reverse index agrees with the registry: a device is a key of    *)
(* the index exactly if some registered shift has it as day or night       *)
(* device, the set under it is exactly the set of those shifts, and no key *)
(* maps to an empty set.                                                   *)
Referencing(d) ==
    {s \in DOMAIN shifts : shifts[s].day_device_id = d \/ shifts[s].night_device_id = d}

C7_IndexAgreesWithRegistry ==
    /\ DOMAIN shifts \subseteq ShiftIds
    /\ DOMAIN device_to_shifts = {d \in DeviceIds : Referencing(d) # {}}
    /\ \A d \in DOMAIN device_to_shifts :
           device_to_shifts[d] = Referencing(d) /\ device_to_shifts[d] # {}

\* A stop has pruned the entry of a device nobody references any more,
\* while the other device of the stopped shift is still watched.
C7_Witness ==
    /\ Returned(last, "deviceStopComm")
    /\ last.args[1] \notin DOMAIN device_to_shifts
    /\ last.args[2] \in DOMAIN device_to_shifts
    /\ shifts # EmptyDict

---------------------------------------------------------------------------
---------------------------------------------------------------------------
(* C9: deviceStartComm creates the shift in the mode the host reports when *)
(* that is "day" or "night", and in default_mode when the host's mode is   *)
(* missing or anything else; in that case default_mode is also what the    *)
(* virtual device shows as its mode.                                       *)
C9_StartAppliesDefaultMode ==
    Returned(last, "deviceStartComm") =>
        LET host_mode == last.args[1]
            default_mode == last.args[4]
        IN  IF host_mode \in {"day", "night"}
            THEN shifts[last.id].mode = host_mode
            ELSE /\ shifts[last.id].mode = default_mode
                 /\ dev_states[last.id].mode = default_mode

\* A shift has started on a host mode that is neither missing nor valid and
\* runs in its default mode.
C9_Witness ==
    /\ Returned(last, "deviceStartComm")
    /\ last.args[1] = ""
    /\ last.args[4] = "night"
    /\ shifts[last.id].mode = "night"
    /\ dev_states[last.id].mode = "night"

---------------------------------------------------------------------------
(* C10: deviceStopComm, turn_on_shift, turn_off_shift, requestStatus and   *)
(* set_shift on an id that is not in the registry end in an error, having  *)
(* changed neither the registry, the reverse index, any shift nor any      *)
(* virtual device, and having issued no command.                           *)
ShiftOps ==
    {"deviceStopComm", "turn_on_shift", "turn_off_shift", "requestStatus", "set_shift"}

C10_UnknownShiftFailsFast ==
    [][(last'.op \in ShiftOps /\ last'.id \notin DOMAIN shifts) =>
          /\ last'.err
          /\ cmds' = <<>>
          /\ UNCHANGED <<shifts, device_to_shifts, dev_states, devOn>>]_vars

\* A set_shift on a shift that is not running has raised while another
\* shift is registered and on.
C10_Witness ==
    /\ last.op = "set_shift"
    /\ last.err
    /\ last.id \notin DOMAIN shifts
    /\ \E s \in DOMAIN shifts : shifts[s].onOffState
    /\ cmds = <<>>


---------------------------------------------------------------------------
(* C11: for every registered shift, whatever mode it got from               *)
(* deviceStartComm or set_shift, current_shift_device_id is the day device *)
(* when the mode is "day" and the night device otherwise; this is also the *)
(* device that a turn-on or turn-off of the shift has just addressed.      *)

C11_ActiveDeviceByMode ==
    /\ \A s \in DOMAIN shifts :
           LET shift == shifts[s]
           IN  /\ shift.mode = "day" =>
                     current_shift_device_id(shift) = shift.day_device_id
               /\ shift.mode # "day" =>
                     current_shift_device_id(shift) = shift.night_device_id
    /\ (Returned(last, "turn_on_shift") \/ Returned(last, "turn_off_shift")) =>
           LET shift == shifts[last.id]
           IN  cmds[1].device = IF shift.mode = "day" THEN shift.day_device_id
                                ELSE shift.night_device_id

\* A shift in night mode with two different devices was turned on, and the
\* command went to its night device
C11_Witness ==
    /\ Returned(last, "turn_on_shift")
    /\ shifts[last.id].mode = "night"
    /\ shifts[last.id].day_device_id # shifts[last.id].night_device_id
    /\ cmds = <<Cmd("turnOn", shifts[last.id].night_device_id)>>


---------------------------------------------------------------------------
(* C12: with a host that changes the power of a device only on the         *)
(* plugin's commands and notifies each change, a shift with two different  *)
(* devices whose cached onOffState is TRUE never has both of them powered, *)
(* in any interleaving of turn-on, turn-off, set_shift and deviceUpdated.  *)

C12_AtMostOnePowered ==
    \A s \in DOMAIN shifts :
        LET shift == shifts[s]
        IN  (shift.day_device_id # shift.night_device_id /\ shift.onOffState) =>
                ~(power[shift.day_device_id] /\ power[shift.night_device_id])


---------------------------------------------------------------------------
(* C13: when the host delivers the change notification that a command has  *)
(* caused for the device that is a shift's active device at delivery (as   *)
(* it is when the mode did not change since the turn-on or turn-off), the  *)
(* shift's cached onOffState and its published onOffState both become the  *)
(* state the notification reports, whatever was published before.          *)

C13_NotificationCorrects ==
    [][(pending # <<>> /\ pending' = Tail(pending) /\ last'.op = "deviceUpdated") =>
           \A s \in DOMAIN shifts :
               ActiveDeviceId(shifts[s]) = Head(pending).device =>
                   /\ shifts'[s].onOffState = Head(pending).onOffState
                   /\ dev_states'[s].onOffState = Head(pending).onOffState]_vars

\* A shift was turned on and then off; the notification of the turn-on has
\* been delivered and replaced the published FALSE of the turn-off by TRUE,
\* while the notification of the turn-off is still pending
C13_Witness ==
    /\ Returned(last, "deviceUpdated")
    /\ last.args = <<TRUE>>
    /\ pending = <<[device |-> last.id, onOffState |-> FALSE]>>
    /\ ~power[last.id]
    /\ \E s \in DOMAIN shifts :
           /\ ActiveDeviceId(shifts[s]) = last.id
           /\ shifts[s].onOffState
           /\ dev_states[s].onOffState


---------------------------------------------------------------------------
(* C14: set_shift on a shift whose day and night device are the same       *)
(* device leaves that device powered exactly as it was, whether the        *)
(* shift's cached onOffState is TRUE or FALSE.                              *)

C14_SameDeviceKeepsPower ==
    [][Returned(last', "set_shift") =>
           LET shift == shifts[last'.id]
           IN  shift.day_device_id = shift.night_device_id =>
                   power'[shift.day_device_id] = power[shift.day_device_id]]_vars


---------------------------------------------------------------------------
(* C15: whenever a handler has returned, every registered shift's          *)
(* published onOffState equals its cached onOffState and its published     *)
(* mode equals its mode.                                                   *)

C15_PublishedEqualsRecord ==
    \A s \in DOMAIN shifts :
        /\ dev_states[s].onOffState = shifts[s].onOffState
        /\ dev_states[s].mode = shifts[s].mode


---------------------------------------------------------------------------
(* C16: for every registered shift, with any mode it can hold, the device  *)
(* that turn-on, turn-off and the status request address, the one device   *)
(* whose change notifications deviceUpdated mirrors into the shift, and    *)
(* the device that set_shift turns on for that mode when the shift is on   *)
(* are the same device.                                                    *)

\* The devices whose notifications deviceUpdated mirrors into the shift
MirroredDevices(shift) == {d \in DeviceIds : Mirrors(shift, d)}

\* The devices set_shift turns on when it puts an on shift into its mode
SwitchedOnDevices(shift) ==
    LET commands == SwitchCommands([shift EXCEPT !.onOffState = TRUE], shift.mode)
    IN  {commands[i].device : i \in {j \in DOMAIN commands :
                                          commands[j].kind = "turnOn"}}

C16_OperationsAgreeOnActive ==
    \A s \in DOMAIN shifts :
        LET addressed == current_shift_device_id(shifts[s])
        IN  /\ MirroredDevices(shifts[s]) = {addressed}
            /\ SwitchedOnDevices(shifts[s]) = {addressed}

\* set_shift has put an on shift with two different devices into night mode
\* and turned on the device that the other handlers address and mirror
C16_Witness ==
    /\ Returned(last, "set_shift")
    /\ last.args = <<"night">>
    /\ shifts[last.id].onOffState
    /\ shifts[last.id].day_device_id # shifts[last.id].night_device_id
    /\ cmds[1] = Cmd("turnOn", current_shift_device_id(shifts[last.id]))
    /\ MirroredDevices(shifts[last.id]) = {cmds[1].device}


---------------------------------------------------------------------------
(* C17: a turn-on, a turn-off, a status request, set_shift and             *)
(* deviceUpdated leave the keys of the registry, the whole reverse index   *)
(* and every shift's day and night device id as they are; set_shift        *)
(* changes at most the mode of its target shift and no shift's cached      *)
(* onOffState; deviceUpdated changes no shift's mode and issues no         *)
(* command.                                                                *)

FrameOps == {"turn_on_shift", "turn_off_shift", "requestStatus", "set_shift",
             "deviceUpdated"}

C17_HandlersKeepFrame ==
    [][last'.op \in FrameOps =>
           /\ DOMAIN shifts' = DOMAIN shifts
           /\ device_to_shifts' = device_to_shifts
           /\ \A s \in DOMAIN shifts :
                  /\ shifts'[s].day_device_id = shifts[s].day_device_id
                  /\ shifts'[s].night_device_id = shifts[s].night_device_id
                  /\ shifts'[s].device_id = shifts[s].device_id
           /\ last'.op = "set_shift" =>
                  \A s \in DOMAIN shifts :
                      /\ shifts'[s].onOffState = shifts[s].onOffState
                      /\ s # last'.id => shifts'[s].mode = shifts[s].mode
           /\ last'.op = "deviceUpdated" =>
                  /\ \A s \in DOMAIN shifts : shifts'[s].mode = shifts[s].mode
                  /\ cmds' = <<>>]_vars

\* set_shift has changed the mode of one of two registered shifts that share
\* both devices; the other shift is on and keeps its mode
C17_Witness ==
    /\ Returned(last, "set_shift")
    /\ DOMAIN shifts = ShiftIds
    /\ \E other \in ShiftIds \ {last.id} :
           /\ shifts[other].mode # shifts[last.id].mode
           /\ shifts[other].onOffState
           /\ shifts[other].day_device_id = shifts[last.id].day_device_id
           /\ shifts[other].night_device_id = shifts[last.id].night_device_id
    /\ cmds # <<>>

=============================================================================
